---- MODULE Spec2Model ----
(***************************************************************************)
(* A model of ctapipe's camera geometry (ctapipe/io/camera.py) and of the  *)
(* muon ring line integrator (ctapipe/calib/array/muon_integrator.py).     *)
(*                                                                         *)
(* Numbers are exact integers.  Pixel indices are 1-based (Python's i is   *)
(* i+1 here).  Angles of the camera rotation are counted in quarter turns, *)
(* angles of the muon integrator in eighths of a turn (pi/4), the angles   *)
(* at which sin, cos and arctan2 are exact on an integer lattice.          *)
(***************************************************************************)
EXTENDS Integers, Sequences, FiniteSets, TLC

VARIABLES
    geom,    \* the CameraGeometry object
    geom0,   \* the same object as its constructor left it
    hist,    \* the last rotate calls: angle, and pix_x, pix_y before the call
    nbr,     \* the last find_neighbor_pixels call and its outcome
    gcg,     \* the last guess_camera_geometry call and its outcome
    muon,    \* the MuonLineIntegrate object
    call,    \* the last call of a MuonLineIntegrate method and its outcome
    smooth   \* the smoothing step of plot_pos applied to a raw length sequence

vars == <<geom, geom0, hist, nbr, gcg, muon, call, smooth>>

(***************************************************************************)
(* Bounds of the model.                                                    *)
(***************************************************************************)
MaxPix == 2      \* pixels of the rotated camera
MaxCoord == 1    \* camera pixel coordinates lie in 0..MaxCoord at construction
MaxTurn == 2     \* rotation angles lie in -MaxTurn..MaxTurn quarter turns
MaxPts == 3      \* points handed to find_neighbor_pixels
MaxPtCoord == 1  \* their coordinates lie in 0..MaxPtCoord
MaxRad == 2      \* radii lie in -MaxRad..MaxRad
MaxGrid == 1     \* guess_camera_geometry: pixels lie on the grid Pitch * (0..MaxGrid)
Pitch == 5       \* grid step, in units of 0.01 length units

NoCall == [op |-> "none"]

\* The outcome of a call: a returned value or a raised exception.
Return(v) == [exc |-> "none", value |-> v]
Raise(e) == [exc |-> e]
\* A call that has been made and has not run yet.
Pending == [exc |-> "pending"]

Abs(n) == IF n < 0 THEN -n ELSE n
Sq(n) == n * n

(***************************************************************************)
(* find_neighbor_pixels                                                    *)
(***************************************************************************)

\* Squared Euclidean distance between points i and j.
Dist2(px, py, i, j) == Sq(px[i] - px[j]) + Sq(py[i] - py[j])

\* A negative radius is outside what the k-d tree documents: a build either
\* compares squared distances with rad^2 or finds nothing.
KdBuilds == {"squared", "nothing"}

\* query_ball_point with a fault: the ball without its boundary.
query_ball_point_open(px, py, i, rad, kd) ==
    IF rad < 0 /\ kd = "nothing"
    THEN {}
    ELSE {j \in 1..Len(px) : Dist2(px, py, i, j) < Sq(rad)}

\* kdtree.query_ball_point(points[i], r=rad): the indices of the points within
\* distance rad of point i, boundary included, point i among them.
query_ball_point(px, py, i, rad, kd) ==
    IF rad < 0 /\ kd = "nothing"
    THEN {}
    ELSE {j \in 1..Len(px) : Dist2(px, py, i, j) <= Sq(rad)}

\* nn.remove(ii) raises ValueError when ii is not in nn.
find_neighbor_pixels(px, py, rad, kd) ==
    LET neighbors == [i \in 1..Len(px) |-> query_ball_point(px, py, i, rad, kd)]
    IN  IF \E i \in 1..Len(px) : i \notin neighbors[i]
        THEN Raise("ValueError")
        ELSE Return([i \in 1..Len(px) |-> neighbors[i] \ {i}])

PtCoord == 0..MaxPtCoord

\* The calls of find_neighbor_pixels the model makes.
NeighborCalls ==
    UNION {[op : {"find_neighbor_pixels"}, pix_x : [1..n -> PtCoord],
            pix_y : [1..n -> PtCoord], rad : (-MaxRad)..MaxRad, kd : KdBuilds,
            out : {Pending}] : n \in 1..MaxPts}

FindNeighborPixels ==
    /\ nbr.op = "find_neighbor_pixels"
    /\ nbr.out = Pending
    /\ nbr' = [nbr EXCEPT !.out = find_neighbor_pixels(nbr.pix_x, nbr.pix_y,
                                                       nbr.rad, nbr.kd)]
    /\ UNCHANGED <<geom, geom0, hist, gcg, muon, call, smooth>>

(***************************************************************************)
(* CameraGeometry                                                          *)
(***************************************************************************)

Units == {"m", "cm"}

\* An astropy Quantity: a value array with a unit.
Quantity(value, unit) == [value |-> value, unit |-> unit]

CameraGeometry(cam_id, pix_id, pix_x, pix_y, pix_area, neighbors, pix_type) ==
    [cam_id |-> cam_id, pix_id |-> pix_id, pix_x |-> pix_x, pix_y |-> pix_y,
     pix_area |-> pix_area, neighbors |-> neighbors, pix_type |-> pix_type]

\* _npix_to_type.get(npix, ('unknown', 'hexagonal'))
guess_camera_type(npix) ==
    CASE npix = 2048 -> <<"SST", "rectangular">>
      [] npix = 1141 -> <<"MST", "hexagonal">>
      [] npix = 1855 -> <<"LST", "hexagonal">>
      [] npix = 11328 -> <<"SST", "rectangular">>
      [] OTHER -> <<"unknown", "hexagonal">>

\* 0.01, in the model's unit of 0.01 length units.
Eps == 1

\* The area is kept as the shape and the squared pixel distance it is computed from.
guess_camera_geometry(pix_x, pix_y, kd) ==
    LET n == Len(pix_x.value)
        type == guess_camera_type(n)
        dx == pix_x.value[2] - pix_x.value[1]
        dy == pix_y.value[2] - pix_y.value[1]
        dist2 == Sq(dx) + Sq(dy)
        area == [shape |-> type[2], dist2 |-> dist2]
        neighbors == find_neighbor_pixels(pix_x.value, pix_y.value, dx + Eps, kd)
    IN  IF neighbors.exc # "none"
        THEN neighbors
        ELSE Return(CameraGeometry(type[1], [i \in 1..n |-> i - 1], pix_x, pix_y,
                                   [i \in 1..n |-> area], neighbors.value, type[2]))

GridCoord == {Pitch * k : k \in 0..MaxGrid}

\* The calls of guess_camera_geometry the model makes.
GuessCalls ==
    UNION {[op : {"guess_camera_geometry"}, pix_x : [1..n -> GridCoord],
            pix_y : [1..n -> GridCoord], kd : KdBuilds, out : {Pending}]
           : n \in 2..MaxPts}

GuessCameraGeometry ==
    /\ gcg.op = "guess_camera_geometry"
    /\ gcg.out = Pending
    /\ gcg' = [gcg EXCEPT !.out = guess_camera_geometry(Quantity(gcg.pix_x, "m"),
                                                        Quantity(gcg.pix_y, "m"),
                                                        gcg.kd)]
    /\ UNCHANGED <<geom, geom0, hist, nbr, muon, call, smooth>>

\* cos and sin of q quarter turns.
Cos4(q) == CASE q % 4 = 0 -> 1 [] q % 4 = 2 -> -1 [] OTHER -> 0
Sin4(q) == CASE q % 4 = 1 -> 1 [] q % 4 = 3 -> -1 [] OTHER -> 0

\* ctapipe.core.linalg.rotation_matrix_2d
rotation_matrix_2d(angle) ==
    <<<<Cos4(angle), -Sin4(angle)>>, <<Sin4(angle), Cos4(angle)>>>>

Transpose(m) == <<<<m[1][1], m[2][1]>>, <<m[1][2], m[2][2]>>>>

\* np.dot of a 2x2 matrix and the 2xN array [xs, ys].
Dot(m, xs, ys) ==
    << [i \in 1..Len(xs) |-> m[1][1] * xs[i] + m[1][2] * ys[i]],
       [i \in 1..Len(xs) |-> m[2][1] * xs[i] + m[2][2] * ys[i]] >>

\* rotate with a fault: pix_x takes the whole rotated array, flattened, not its
\* first row.
rotated_geometry_flat(g, angle) ==
    LET rotmat == rotation_matrix_2d(angle)
        rotated == Dot(Transpose(rotmat), g.pix_x.value, g.pix_y.value)
        new_x == Quantity(rotated[1] \o rotated[2], g.pix_x.unit)
    IN  [g EXCEPT !.pix_x = new_x, !.pix_y = Quantity(rotated[2], new_x.unit)]

\* The object after rotate(angle): pix_y is given the unit pix_x has by then.
rotated_geometry(g, angle) ==
    LET rotmat == rotation_matrix_2d(angle)
        rotated == Dot(Transpose(rotmat), g.pix_x.value, g.pix_y.value)
        new_x == Quantity(rotated[1], g.pix_x.unit)
    IN  [g EXCEPT !.pix_x = new_x, !.pix_y = Quantity(rotated[2], new_x.unit)]

\* hist keeps the last two calls.
Remember(h, e) == IF Len(h) < 2 THEN Append(h, e) ELSE <<h[2], e>>

rotate ==
    \E angle \in (-MaxTurn)..MaxTurn :
      /\ geom' = rotated_geometry(geom, angle)
      /\ hist' = Remember(hist, [angle |-> angle, pix_x |-> geom.pix_x,
                                 pix_y |-> geom.pix_y])
      /\ UNCHANGED <<geom0, nbr, gcg, muon, call, smooth>>

InitCamera ==
    \E n \in 1..MaxPix :
      \E xs \in [1..n -> 0..MaxCoord], ys \in [1..n -> 0..MaxCoord] :
        \E ux \in Units, uy \in Units, type \in {"hexagonal"} :
          /\ geom = CameraGeometry("cam", [i \in 1..n |-> i - 1],
                                   Quantity(xs, ux), Quantity(ys, uy),
                                   [i \in 1..n |-> 1],
                                   find_neighbor_pixels(xs, ys, 1, "squared").value,
                                   type)
          /\ geom0 = geom
          /\ hist = <<>>
          /\ nbr = NoCall /\ gcg = NoCall
          /\ muon = NoCall /\ call = NoCall
          /\ smooth = NoCall

(***************************************************************************)
(* MuonLineIntegrate                                                       *)
(***************************************************************************)
MaxRadius == 1       \* ring radii lie in 1..MaxRadius
MaxPixelWidth == 7   \* pixel widths lie in 1..MaxPixelWidth
MaxOversample == 5   \* oversample_bins lies in 1..MaxOversample
MaxImgPix == 9       \* pixels handed to image_prediction

\* The length of the ray intersect_polygon builds.
Length == 100
\* pi and 2*pi, in eighths of a turn.
Pi == 4
FullTurn == 8
\* 2*pi as the fraction 710/113, for the floor in the bin count: with
\* radius < 113 no integer lies between 2*pi*radius/pixel_width and
\* 710*radius/(113*pixel_width), so both have the same floor.
TwoPiNum == 710
TwoPiDen == 113

SetMax(S) == CHOOSE m \in S : \A n \in S : n <= m
SetMin(S) == CHOOSE m \in S : \A n \in S : m <= n
Sgn(n) == IF n > 0 THEN 1 ELSE IF n < 0 THEN -1 ELSE 0
\* Floor and ceiling of a / b for b > 0.
FloorDiv(a, b) == a \div b
CeilDiv(a, b) == -((-a) \div b)

\* Convex polygons, vertices counter-clockwise.
Square(h) == <<<<-h, -h>>, <<h, -h>>, <<h, h>>, <<-h, h>>>>
Diamond(h) == <<<<h, 0>>, <<0, h>>, <<-h, 0>>, <<0, -h>>>>
Rect(x0, y0, x1, y1) == <<<<x0, y0>>, <<x1, y0>>, <<x1, y1>>, <<x0, y1>>>>

Mirrors == {Square(2), Diamond(2)}
\* A hole inside the mirror, and one that lies outside it.
Holes == {Square(1), Rect(3, 1, 5, 3)}

\* __init__: the object keeps the two polygons and the two sampling parameters.
MuonLineIntegrate(mirror_points, hole_points, pixel_width, oversample_bins) ==
    [mirror |-> mirror_points, hole |-> hole_points,
     pixel_width |-> pixel_width, oversample_bins |-> oversample_bins]

\* sin and cos of a eighths of a turn, a even (a whole number of quarter turns).
SinE(a) == CASE a % 8 = 0 -> 0 [] a % 8 = 2 -> 1 [] a % 8 = 4 -> 0 [] a % 8 = 6 -> -1
CosE(a) == CASE a % 8 = 0 -> 1 [] a % 8 = 2 -> 0 [] a % 8 = 4 -> -1 [] a % 8 = 6 -> 0

dir_to_line(centre_x, centre_y, angle, length) ==
    LET del_x == length * SinE(angle)
        del_y == length * CosE(angle)
    IN  <<centre_x + del_x, centre_y + del_y>>

Cross(u, v) == u[1] * v[2] - u[2] * v[1]

\* polygon.intersection(LineString(line)) for a convex polygon and a segment of
\* length Length: the part of the segment on the inner side of every edge.  s
\* is the distance from line[1]; the polygons and impact points of the model
\* make every crossing fall on a whole s, so the divisions are exact.
intersection(poly, line) ==
    LET n == Len(poly)
        D == <<line[2][1] - line[1][1], line[2][2] - line[1][2]>>
        edge(i) == <<poly[(i % n) + 1][1] - poly[i][1], poly[(i % n) + 1][2] - poly[i][2]>>
        c0(i) == Cross(edge(i), <<line[1][1] - poly[i][1], line[1][2] - poly[i][2]>>)
        c1(i) == Cross(edge(i), D)
        lo == SetMax({0} \cup {CeilDiv(-c0(i) * Length, c1(i)) : i \in {j \in 1..n : c1(j) > 0}})
        hi == SetMin({Length} \cup {FloorDiv(c0(i) * Length, -c1(i)) : i \in {j \in 1..n : c1(j) < 0}})
        at(s) == <<line[1][1] + (s * D[1]) \div Length, line[1][2] + (s * D[2]) \div Length>>
    IN  IF (\E i \in 1..n : c1(i) = 0 /\ c0(i) < 0) \/ lo > hi
        THEN [kind |-> "empty"]
        ELSE IF lo = hi
        THEN [kind |-> "point", at |-> <<at(lo)>>]
        ELSE [kind |-> "line", at |-> <<at(lo), at(hi)>>]

\* geometry.coords: an empty intersection is an empty collection, which has no
\* coordinate sequence and raises (the case the except branch of
\* intersect_polygon is written for); a point has one coordinate, a line two.
coords(g) == IF g.kind = "empty" THEN Raise("NotImplementedError") ELSE Return(g.at)

\* LineString(coordinates) raises on a single coordinate; .length of a segment
\* along an axis.
LineString(c) ==
    IF Len(c) < 2
    THEN Raise("ValueError")
    ELSE Return([length |-> Abs(c[2][1] - c[1][1]) + Abs(c[2][2] - c[1][2])])

\* intersect_polygon.  The mirror's coords are read inside the first try block
\* and its LineString is built after it; the hole's are both inside the second.
intersect_polygon(self, impact_x, impact_y, angle) ==
    LET end == dir_to_line(impact_x, impact_y, angle, Length)
        shapely_line == <<<<impact_x, impact_y>>, end>>
        intersection_line == coords(intersection(self.mirror, shapely_line))
        line_intersect == LineString(intersection_line.value)
        intersection_hole == coords(intersection(self.hole, shapely_line))
        hole_intersect == LineString(intersection_hole.value)
        length_hole == IF intersection_hole.exc # "none" \/ hole_intersect.exc # "none"
                       THEN 0
                       ELSE hole_intersect.value.length
    IN  IF intersection_line.exc # "none"
        THEN Return(0)
        ELSE IF line_intersect.exc # "none"
        THEN line_intersect
        ELSE Return(line_intersect.value.length - length_hole)

QuarterAngles == {0, 2, 4, 6}

\* The bin count with a fault: the product is floored,
\* int(2*pi*radius/pixel_width * oversample_bins).
bins_floor_last(self, radius) ==
    (TwoPiNum * radius * self.oversample_bins) \div (TwoPiDen * self.pixel_width)

\* int((2 * math.pi * radius) / self.pixel_width) * self.oversample_bins
Bins(self, radius) ==
    ((TwoPiNum * radius) \div (TwoPiDen * self.pixel_width)) * self.oversample_bins

\* np.linspace(0, 2*math.pi, bins), in eighths of a turn.
linspace(bins) ==
    [i \in 1..bins |-> IF bins = 1 THEN 0 ELSE ((i - 1) * FullTurn) \div (bins - 1)]

\* The bin counts whose sampled angles are whole quarter turns.
ExactlySampled(bins) == IF bins <= 1 THEN TRUE ELSE 4 % (bins - 1) = 0

\* correlate1d with a fault: mode="reflect", ndimage's default, which mirrors
\* the sequence at its ends.
correlate1d_reflect(l, k) ==
    LET n == Len(l)
        reflect(t) == IF t % (2 * n) < n THEN t % (2 * n) ELSE 2 * n - 1 - (t % (2 * n))
    IN  [i \in 1..n |->
            LET window == [j \in 1..k |-> l[reflect(i - 1 + (j - 1) - (k \div 2)) + 1]]
                sum[j \in 0..k] == IF j = 0 THEN 0 ELSE sum[j - 1] + window[j]
            IN  sum[k]]

\* correlate1d(l, np.ones(k), mode="wrap"): the sum of the k entries around i,
\* the window starting k \div 2 entries before i and wrapping around the ends.
correlate1d_wrap(l, k) ==
    LET n == Len(l)
    IN  [i \in 1..n |->
            LET window == [j \in 1..k |-> l[((i - 1 + (j - 1) - (k \div 2)) % n) + 1]]
                sum[j \in 0..k] == IF j = 0 THEN 0 ELSE sum[j - 1] + window[j]
            IN  sum[k]]

\* l /= oversample_bins: each entry is kept as the fraction num / den.
Smoothed(l, k) ==
    LET summed == correlate1d_wrap(l, k)
    IN  [i \in 1..Len(l) |-> [num |-> summed[i], den |-> k]]

\* ndimage on an array of no entries: a build either returns no entries or raises.
NdimageBuilds == {"empty", "raises"}

\* plot_pos.  ang is the angle array, kept also when a later line raises.
plot_pos(self, impact_x, impact_y, radius, ndimage) ==
    LET bins == Bins(self, radius)
        ang == linspace(bins)
        raw == [i \in 1..bins |-> intersect_polygon(self, impact_x, impact_y, ang[i])]
        failed == {i \in 1..bins : raw[i].exc # "none"}
    IN  IF failed # {}
        THEN [exc |-> raw[SetMin(failed)].exc, ang |-> ang]
        ELSE IF bins = 0 /\ ndimage = "raises"
        THEN [exc |-> "RuntimeError", ang |-> ang]
        ELSE [exc |-> "none", ang |-> ang,
              raw |-> [i \in 1..bins |-> raw[i].value],
              l |-> Smoothed([i \in 1..bins |-> raw[i].value], self.oversample_bins)]

\* np.arctan2(y, x) in eighths of a turn, for (x, y) on an axis or a diagonal.
\* negzero: a zero y is -0.0, which turns the results 0 and pi into -0.0 and -pi.
arctan2(y, x, negzero) ==
    CASE y = 0 /\ x >= 0 -> 0
      [] y = 0 /\ x < 0 -> IF negzero THEN -4 ELSE 4
      [] y > 0 /\ x = 0 -> 2
      [] y < 0 /\ x = 0 -> -2
      [] y > 0 /\ x = y -> 1
      [] y > 0 /\ x = -y -> 3
      [] y < 0 /\ x = y -> -3
      [] y < 0 /\ x = -y -> -1

pos_to_angle(centre_x, centre_y, pixel_x, pixel_y, negzero) ==
    LET del_x == pixel_x - centre_x
        del_y == pixel_y - centre_y
    IN  arctan2(del_x, del_y, negzero)

\* The correction with a fault: pi is subtracted.
corrected_angle_minus(ang) == ang - Pi

\* ang = ang + math.pi
corrected_angle(ang) == ang + Pi

\* np.interp(x, xp, fp) for increasing xp: the end values outside xp, the value
\* on the line between the two neighbours inside.  fp holds fractions.
interp(x, xp, fp) ==
    LET n == Len(xp)
    IN  IF x <= xp[1] THEN fp[1]
        ELSE IF x >= xp[n] THEN fp[n]
        ELSE LET i == SetMax({j \in 1..(n - 1) : xp[j] <= x})
             IN  [num |-> fp[i].num * (xp[i + 1] - x) + fp[i + 1].num * (x - xp[i]),
                  den |-> fp[i].den * (xp[i + 1] - xp[i])]

\* The sign of exp(-(ring_dist/width)^2) / sqrt(2*pi*width^2): positive for
\* every ring_dist and every width other than 0.
GaussSign(width) == Sgn(Sq(width))

\* image_prediction.  Each predicted intensity is kept as its sign.
image_prediction(self, impact_x, impact_y, centre_x, centre_y, radius, width, pixel_x, pixel_y, negzero, ndimage) ==
    LET n == Len(pixel_x)
        ang == [i \in 1..n |->
                   corrected_angle(pos_to_angle(centre_x, centre_y,
                                                pixel_x[i], pixel_y[i], negzero))]
        prof == plot_pos(self, impact_x, impact_y, radius, ndimage)
    IN  IF prof.exc # "none"
        THEN [exc |-> prof.exc, ang |-> ang, ang_prof |-> prof.ang]
        ELSE IF Len(prof.ang) = 0
        THEN [exc |-> "ValueError", ang |-> ang, ang_prof |-> prof.ang]
        ELSE [exc |-> "none", ang |-> ang, ang_prof |-> prof.ang,
              profile |-> prof.l,
              pred |-> [i \in 1..n |->
                           Sgn(interp(ang[i], prof.ang, prof.l).num) * GaussSign(width)]]

\* Impact points: inside both mirrors, on an edge, on a corner, outside one.
ImpactPoints == {<<0, 0>>, <<0, 1>>, <<1, 1>>, <<0, 2>>, <<2, 2>>}
Centres == {<<0, 0>>, <<1, 0>>}
Widths == {-1, 1}

\* The MuonLineIntegrate objects of the model.
Muons ==
    {MuonLineIntegrate(m, h, w, k) :
        m \in Mirrors, h \in Holes, w \in 1..MaxPixelWidth, k \in 1..MaxOversample}

\* Pixel k of a camera of 3 x 3 pixels one unit apart around the ring centre,
\* x running fastest (the order of meshgrid(...).ravel()).
camera_pixel_x(centre, k) == centre[1] + ((k - 1) % 3) - 1
camera_pixel_y(centre, k) == centre[2] + (((k - 1) \div 3) % 3) - 1

IntersectCalls ==
    [op : {"intersect_polygon"}, impact : ImpactPoints,
     angle : QuarterAngles, out : {Pending}]

PlotCalls ==
    [op : {"plot_pos"}, impact : ImpactPoints,
     radius : 1..MaxRadius, ndimage : NdimageBuilds, out : {Pending}]

\* image_prediction is called on the first npix pixels of the camera.
ImageCalls ==
    [op : {"image_prediction"}, impact : ImpactPoints, centre : Centres,
     radius : 1..MaxRadius, width : Widths, npix : 1..MaxImgPix,
     negzero : BOOLEAN, ndimage : NdimageBuilds, out : {Pending}]

IntersectPolygon ==
    /\ call.op = "intersect_polygon"
    /\ call.out = Pending
    /\ call' = [call EXCEPT !.out = intersect_polygon(muon, call.impact[1],
                                                      call.impact[2], call.angle)]
    /\ UNCHANGED <<geom, geom0, hist, nbr, gcg, muon, smooth>>

PlotPos ==
    /\ call.op = "plot_pos"
    /\ call.out = Pending
    /\ call' = [call EXCEPT !.out = plot_pos(muon, call.impact[1], call.impact[2],
                                             call.radius, call.ndimage)]
    /\ UNCHANGED <<geom, geom0, hist, nbr, gcg, muon, smooth>>

ImagePrediction ==
    /\ call.op = "image_prediction"
    /\ call.out = Pending
    /\ call' = [call EXCEPT !.out =
                   image_prediction(muon, call.impact[1], call.impact[2],
                       call.centre[1], call.centre[2], call.radius, call.width,
                       [k \in 1..call.npix |-> camera_pixel_x(call.centre, k)],
                       [k \in 1..call.npix |-> camera_pixel_y(call.centre, k)],
                       call.negzero, call.ndimage)]
    /\ UNCHANGED <<geom, geom0, hist, nbr, gcg, muon, smooth>>

InitMuon ==
    /\ muon \in Muons
    /\ call \in IntersectCalls \cup PlotCalls \cup ImageCalls
    /\ call.op # "intersect_polygon" =>
          /\ ExactlySampled(Bins(muon, call.radius))
          /\ Bins(muon, call.radius) # 0 => call.ndimage = "empty"
    /\ geom = NoCall /\ geom0 = NoCall /\ hist = <<>>
    /\ nbr = NoCall /\ gcg = NoCall
    /\ smooth = NoCall

NextMuon == IntersectPolygon \/ PlotPos \/ ImagePrediction

SpecCamera == InitCamera /\ [][rotate]_vars

NextNeighbors == FindNeighborPixels \/ GuessCameraGeometry

InitNeighbors ==
    /\ \/ nbr \in NeighborCalls /\ gcg = NoCall
       \/ nbr = NoCall /\ gcg \in GuessCalls
    /\ geom = NoCall /\ geom0 = NoCall /\ hist = <<>>
    /\ muon = NoCall /\ call = NoCall
    /\ smooth = NoCall

SpecNeighbors == InitNeighbors /\ [][NextNeighbors]_vars

SpecMuon == InitMuon /\ [][NextMuon]_vars

(***************************************************************************)
(* The smoothing step of plot_pos on its own: a raw length sequence of     *)
(* bins = f * oversample_bins entries is drawn, and the step is applied.   *)
(***************************************************************************)
MaxBins == 6    \* raw sequences have at most MaxBins entries
MaxChord == 1   \* raw lengths lie in -1..MaxChord

SmoothCalls ==
    UNION {[op : {"smooth"}, oversample_bins : {k},
            raw : [1..(f * k) -> (-1)..MaxChord], out : {Pending}]
           : <<f, k>> \in {p \in (1..MaxBins) \X (1..MaxBins) : p[1] * p[2] <= MaxBins}}

ApplySmooth ==
    /\ smooth.op = "smooth"
    /\ smooth.out = Pending
    /\ smooth' = [smooth EXCEPT !.out = Return(Smoothed(smooth.raw,
                                                       smooth.oversample_bins))]
    /\ UNCHANGED <<geom, geom0, hist, nbr, gcg, muon, call>>

InitSmooth ==
    /\ smooth \in SmoothCalls
    /\ geom = NoCall /\ geom0 = NoCall /\ hist = <<>>
    /\ nbr = NoCall /\ gcg = NoCall
    /\ muon = NoCall /\ call = NoCall

SpecSmooth == InitSmooth /\ [][ApplySmooth]_vars

(***************************************************************************)
(* Properties                                                              *)
(***************************************************************************)

RECURSIVE SeqSum(_)
SeqSum(s) == IF s = <<>> THEN 0 ELSE s[1] + SeqSum(Tail(s))

Last(s) == s[Len(s)]

\* C1: after any sequence of rotate calls, cam_id, pix_id, pix_area, neighbors
\* and pix_type are what the constructor left, and pix_x and pix_y have as many
\* entries as pix_id.
C1_RotateKeepsOtherFields ==
    /\ geom.cam_id = geom0.cam_id
    /\ geom.pix_id = geom0.pix_id
    /\ geom.pix_area = geom0.pix_area
    /\ geom.neighbors = geom0.neighbors
    /\ geom.pix_type = geom0.pix_type
    /\ Len(geom.pix_x.value) = Len(geom.pix_id)
    /\ Len(geom.pix_y.value) = Len(geom.pix_id)

\* Two rotations have run and the coordinates have moved.
C1_Witness ==
    /\ Len(hist) = 2
    /\ geom.pix_x.value # geom0.pix_x.value
    /\ geom.pix_y.value # geom0.pix_y.value

\* C8: rotate(theta) followed by rotate(-theta) restores pix_x and pix_y, values
\* and units, and rotate(0) leaves them as they were.
C8_RotateBackRestores ==
    /\ (Len(hist) >= 1 /\ Last(hist).angle = 0) =>
          (geom.pix_x = Last(hist).pix_x /\ geom.pix_y = Last(hist).pix_y)
    /\ (Len(hist) = 2 /\ hist[2].angle = -hist[1].angle) =>
          (geom.pix_x = hist[1].pix_x /\ geom.pix_y = hist[1].pix_y)

NeighborsDone == nbr.op = "find_neighbor_pixels" /\ nbr.out # Pending

\* The indices j # i of the points at Euclidean distance <= rad of point i.
PointsWithin(px, py, i, rad) ==
    {j \in (1..Len(px)) \ {i} : rad >= 0 /\ Dist2(px, py, i, j) <= Sq(rad)}

NeighborsAsClaimed ==
    /\ nbr.out.exc = "none"
    /\ Len(nbr.out.value) = Len(nbr.pix_x)
    /\ \A i \in 1..Len(nbr.pix_x) :
          nbr.out.value[i] = PointsWithin(nbr.pix_x, nbr.pix_y, i, nbr.rad)

\* C2, as stated: for every radius, find_neighbor_pixels returns, for each point,
\* exactly the other points within distance rad, and does not fail.
C2_EveryRadius == NeighborsDone => NeighborsAsClaimed

\* C2, amended: the same for every radius rad >= 0.
C2_RadiusNotNegative == (NeighborsDone /\ nbr.rad >= 0) => NeighborsAsClaimed

\* A call with rad >= 0 that leaves one point without neighbors and gives
\* another a neighbor at exactly distance rad.
C2_Witness ==
    /\ NeighborsDone
    /\ nbr.rad >= 0
    /\ nbr.out.exc = "none"
    /\ \E i \in 1..Len(nbr.pix_x) : nbr.out.value[i] = {}
    /\ \E i \in 1..Len(nbr.pix_x) : \E j \in nbr.out.value[i] :
          Dist2(nbr.pix_x, nbr.pix_y, i, j) = Sq(nbr.rad)

GuessDone == gcg.op = "guess_camera_geometry" /\ gcg.out # Pending

\* C9: when the first two pixels are apart, guess_camera_geometry hands the
\* neighbor finder a radius strictly greater than their distance (the pitch),
\* the call succeeds, and every pixel at pitch distance of a pixel is among its
\* neighbors.
C9_RadiusExceedsPitch ==
    LET px == gcg.pix_x
        py == gcg.pix_y
        pitch2 == Dist2(px, py, 1, 2)
        rad == (px[2] - px[1]) + Eps
    IN  (GuessDone /\ pitch2 > 0) =>
          /\ rad > 0
          /\ Sq(rad) > pitch2
          /\ gcg.out.exc = "none"
          /\ \A i \in 1..Len(px) : \A j \in (1..Len(px)) \ {i} :
                Dist2(px, py, i, j) = pitch2 => j \in gcg.out.value.neighbors[i]

IntersectDone == call.op = "intersect_polygon" /\ call.out # Pending

\* p lies in the closed convex polygon poly.
InPolygon(poly, p) ==
    \A i \in 1..Len(poly) :
        Cross(<<poly[(i % Len(poly)) + 1][1] - poly[i][1],
                poly[(i % Len(poly)) + 1][2] - poly[i][2]>>,
              <<p[1] - poly[i][1], p[2] - poly[i][2]>>) >= 0

\* The distances s in 0..Length at which the ray from p at the given angle is
\* inside poly.
RayInside(poly, p, angle) ==
    {s \in 0..Length : InPolygon(poly, <<p[1] + s * SinE(angle), p[2] + s * CosE(angle)>>)}

\* No intersection, or a single point.
Degenerate(poly, p, angle) == Cardinality(RayInside(poly, p, angle)) < 2

\* The length of the ray inside poly, 0 when the intersection is degenerate.
ChordLength(poly, p, angle) ==
    IF Degenerate(poly, p, angle)
    THEN 0
    ELSE SetMax(RayInside(poly, p, angle)) - SetMin(RayInside(poly, p, angle))

\* C3: intersect_polygon returns a number and never raises; a degenerate
\* intersection with the mirror or with the hole counts as length 0.
C3_IntersectNeverRaises ==
    IntersectDone =>
      /\ call.out.exc = "none"
      /\ (Degenerate(muon.mirror, call.impact, call.angle)
          /\ Degenerate(muon.hole, call.impact, call.angle)) => call.out.value = 0

\* C4: intersect_polygon returns the length of the ray inside the mirror minus
\* its length inside the hole, each 0 when the ray does not cross that polygon;
\* the hole length is subtracted also when the mirror length is 0.
C4_MirrorMinusHole ==
    IntersectDone =>
      /\ call.out.exc = "none"
      /\ call.out.value = ChordLength(muon.mirror, call.impact, call.angle)
                            - ChordLength(muon.hole, call.impact, call.angle)

PlotDone == call.op = "plot_pos" /\ call.out # Pending

\* floor(2*pi*radius / pixel_width) * oversample_bins
ClaimedBins ==
    ((TwoPiNum * call.radius) \div (TwoPiDen * muon.pixel_width)) * muon.oversample_bins

EvenlySpaced(a) ==
    \A i \in 1..(Len(a) - 2) : a[i + 1] - a[i] = a[i + 2] - a[i + 1]

\* C5, as stated, of the angles plot_pos builds and of the lengths it returns:
\* both sequences have bins entries, the angles are evenly spaced, the first is
\* 0 and the last is 2*pi.
C5_AnglesSpanFullTurn ==
    PlotDone =>
      /\ Len(call.out.ang) = ClaimedBins
      /\ call.out.exc = "none" => Len(call.out.l) = ClaimedBins
      /\ EvenlySpaced(call.out.ang)
      /\ ClaimedBins >= 1
      /\ call.out.ang[1] = 0
      /\ Last(call.out.ang) = FullTurn

\* C5, amended: plot_pos builds bins angles, evenly spaced from 0; the last is
\* 2*pi when bins >= 2 and 0 when bins = 1; the length sequence it returns has
\* bins entries as well.
C5_AnglesFromZero ==
    PlotDone =>
      /\ Len(call.out.ang) = ClaimedBins
      /\ EvenlySpaced(call.out.ang)
      /\ ClaimedBins >= 1 => call.out.ang[1] = 0
      /\ ClaimedBins >= 2 => Last(call.out.ang) = FullTurn
      /\ ClaimedBins = 1 => Last(call.out.ang) = 0
      /\ call.out.exc = "none" => Len(call.out.l) = ClaimedBins

\* plot_pos has returned a profile of five bins.
C5_Witness ==
    /\ PlotDone
    /\ call.out.exc = "none"
    /\ ClaimedBins = 5
    /\ call.out.ang = <<0, 2, 4, 6, 8>>
    /\ Len(call.out.l) = 5

SmoothDone == smooth.op = "smooth" /\ smooth.out # Pending

\* The sum of the k entries of raw from index start on, wrapping around the end.
WindowSum(raw, start, k) ==
    SeqSum([j \in 1..k |-> raw[((start + j - 2) % Len(raw)) + 1]])

\* C6: each smoothed length is the mean of oversample_bins consecutive raw
\* lengths around its index, indices wrapping; so the smoothed lengths sum to
\* what the raw lengths sum to, and a constant raw sequence comes back unchanged.
C6_CircularMovingAverage ==
    SmoothDone =>
      LET raw == smooth.raw
          k == smooth.oversample_bins
          l == smooth.out.value
      IN  /\ Len(l) = Len(raw)
          /\ \A i \in 1..Len(raw) :
                /\ l[i].den = k
                /\ \E start \in (i - k + 1)..i : l[i].num = WindowSum(raw, start, k)
          /\ SeqSum([i \in 1..Len(l) |-> l[i].num]) = k * SeqSum(raw)
          /\ \A c \in (-1)..MaxChord :
                (\A i \in 1..Len(raw) : raw[i] = c) =>
                   \A i \in 1..Len(l) : l[i].num = c * l[i].den

\* A window of two that wraps: the first smoothed length takes in the last raw one.
C6_Witness ==
    /\ SmoothDone
    /\ smooth.oversample_bins = 2
    /\ smooth.raw = <<0, 0, 0, 1>>
    /\ smooth.out.value[1].num = 1
    /\ smooth.out.value[2].num = 0

ImageDone == call.op = "image_prediction" /\ call.out # Pending

\* C7: image_prediction returns one intensity per pixel, each >= 0 (the width
\* is never 0 here).
C7_OneNonNegativePerPixel ==
    ImageDone =>
      /\ call.out.exc = "none"
      /\ Len(call.out.pred) = call.npix
      /\ \A i \in 1..call.npix : call.out.pred[i] >= 0

\* C10: every pixel's corrected angle lies in [0, 2*pi], so that it lies in the
\* profile's domain whenever the profile spans [0, 2*pi].
C10_AngleInProfileDomain ==
    ImageDone =>
      /\ Len(call.out.ang) = call.npix
      /\ \A i \in 1..call.npix :
            /\ 0 <= call.out.ang[i]
            /\ call.out.ang[i] <= FullTurn
            /\ (Len(call.out.ang_prof) >= 2 /\ call.out.ang_prof[1] = 0
                /\ Last(call.out.ang_prof) = FullTurn) =>
                  (call.out.ang_prof[1] <= call.out.ang[i]
                   /\ call.out.ang[i] <= Last(call.out.ang_prof))

\* A prediction over the whole camera against a profile that spans the turn:
\* one pixel's angle is 2*pi, another's lies between two profile angles.
C10_Witness ==
    /\ ImageDone
    /\ call.out.exc = "none"
    /\ call.npix = 9
    /\ Len(call.out.ang_prof) = 5
    /\ \E i \in 1..call.npix : call.out.ang[i] = FullTurn
    /\ \E i \in 1..call.npix : call.out.ang[i] = 1

====
